---- MODULE Spec2Model ----
(***************************************************************************)
(* Model of the CPU-scheduling simulator of src/main.go: the four          *)
(* schedulers FCFSSchedule, SJFSchedule, SJFPrioritySchedule and           *)
(* RRSchedule, and main, which calls them in that order on one shared      *)
(* slice of processes.                                                     *)
(*                                                                         *)
(* A Go slice is a view (pointer, length) on a backing array.  main's      *)
(* slice and the slice parameter of every scheduler share one backing      *)
(* array, which the variable processes holds; a scheduler that sorts or    *)
(* shifts elements in place changes what main and the later schedulers     *)
(* see.                                                                    *)
(*                                                                         *)
(* Table rows are kept as records of integers; fmt.Sprint of an int64 is   *)
(* its decimal numeral, which no property here depends on.  The float64    *)
(* sums totalWait, totalTurnaround and lastCompletion are kept as the      *)
(* integers they are sums of (all values are far below 2^53), and an       *)
(* average as its numerator and denominator.                               *)
(***************************************************************************)
EXTENDS Integers, Sequences, FiniteSets, TLC

(* The state of a run *)

VARIABLES
    release,    \* the sort package the program is built with: "pdqsort" or "quicksort"
    loaded,     \* the list loadProcesses returned
    entry,      \* "main", or the one scheduler that is called on the loaded list
    processes,  \* the backing array of the caller's slice
    pc,         \* the call that comes next; "exit" and "panic" end the run
    fcfs,       \* what FCFSSchedule handed to the output helpers
    sjf,        \* the same for SJFSchedule
    prio,       \* the same for SJFPrioritySchedule
    rr          \* the variables of RRSchedule

\* Largest number of processes in a loaded list.
MaxLen == 3

\* main.go:262  const quantum int64 = 4
quantum == 4

\* Values the fields of a loaded process are drawn from.
Arrivals == {0, 1, 4}
Bursts == {1, 5}

\* main.go:62-68  type Process
Process == [ProcessID : Int, ArrivalTime : Int, BurstDuration : Int, Priority : Int]

\* main.go:69-73  type TimeSlice
TimeSlice(pid, start, stop) == [PID |-> pid, Start |-> start, Stop |-> stop]

\* A row of the schedule table (main.go:106-114, header at main.go:375).
Row(id, priority, burst, arrival, wait, turnaround, exit) ==
    [ID |-> id, Priority |-> priority, Burst |-> burst, Arrival |-> arrival,
     Wait |-> wait, Turnaround |-> turnaround, Exit |-> exit]

\* An element of make([][]string, n) that was never assigned (a nil row).
NilRow == [ID |-> -1]

----------------------------------------------------------------------------
(* sort.Slice *)

\* The less functions handed to sort.Slice.
LessBurst(a, b) == a.BurstDuration < b.BurstDuration

\* The comparison without its tie-break on the priority.
LessBurstNoTieBreak(a, b) == a.BurstDuration < b.BurstDuration

LessBurstPriority(a, b) ==
    IF a.BurstDuration = b.BurstDuration
    THEN a.Priority < b.Priority
    ELSE a.BurstDuration < b.BurstDuration

LessArrival(a, b) == a.ArrivalTime < b.ArrivalTime

Less(by, a, b) ==
    CASE by = "burst" -> LessBurst(a, b)
      [] by = "burstPriority" -> LessBurstPriority(a, b)
      [] by = "arrival" -> LessArrival(a, b)

Swap(s, i, j) == [s EXCEPT ![i] = s[j], ![j] = s[i]]

\* The inner loop of insertion sort: for j := i; j > a && less(j, j-1); j--
\* { swap(j, j-1) }, on 1-based positions.
RECURSIVE SinkDown(_, _, _)
SinkDown(by, s, j) ==
    IF j > 1 /\ Less(by, s[j], s[j - 1])
    THEN SinkDown(by, Swap(s, j, j - 1), j - 1)
    ELSE s

\* The outer loop: for i := a + 1; i < b; i++.
RECURSIVE InsertionLoop(_, _, _)
InsertionLoop(by, s, i) ==
    IF i > Len(s) THEN s ELSE InsertionLoop(by, SinkDown(by, s, i), i + 1)

\* The pass that quickSort_func of the sort package up to Go 1.18 makes
\* before its insertion sort on a slice of at most 12 elements:
\* for i := a + 6; i < b; i++ { if less(i, i-6) { swap(i, i-6) } }.
RECURSIVE ShellPass(_, _, _)
ShellPass(by, s, i) ==
    IF i > Len(s) THEN s
    ELSE ShellPass(by, IF Less(by, s[i], s[i - 6]) THEN Swap(s, i, i - 6) ELSE s, i + 1)

\* sort.Slice on a slice of at most 12 elements: an insertion sort since
\* Go 1.19 (pdqsort_func), and the pass with gap 6 followed by an insertion
\* sort before (quickSort_func).  The two agree on at most 6 elements.
SortSlice(by, s) ==
    IF release = "quicksort"
    THEN InsertionLoop(by, ShellPass(by, s, 7), 2)
    ELSE InsertionLoop(by, s, 2)

----------------------------------------------------------------------------
(* FCFSSchedule *)

\* The variables of FCFSSchedule before its loop (main.go:83-91).
FCFSStart(ps) ==
    [serviceTime |-> 0, totalWait |-> 0, totalTurnaround |-> 0,
     lastCompletion |-> 0, waitingTime |-> 0,
     schedule |-> [k \in 1..Len(ps) |-> NilRow], gantt |-> <<>>,
     count |-> Len(ps), panic |-> FALSE]

\* if processes[i].ArrivalTime > 0 { waitingTime = serviceTime - ArrivalTime }
\* and otherwise the value left by the previous iteration.
FCFSWaitingTime(p, serviceTime, waitingTime) ==
    IF p.ArrivalTime > 0 THEN serviceTime - p.ArrivalTime ELSE waitingTime

\* One iteration of the loop of FCFSSchedule on processes[i] (1-based i).
FCFSBody(st, ps, i) ==
    LET p == ps[i]
        waitingTime == FCFSWaitingTime(p, st.serviceTime, st.waitingTime)
        start == waitingTime + p.ArrivalTime
        turnaround == p.BurstDuration + waitingTime
        completion == p.BurstDuration + p.ArrivalTime + waitingTime
        serviceTime == st.serviceTime + p.BurstDuration
    IN  [st EXCEPT
            !.waitingTime = waitingTime,
            !.totalWait = @ + waitingTime,
            !.totalTurnaround = @ + turnaround,
            !.lastCompletion = completion,
            !.schedule[i] = Row(p.ProcessID, p.Priority, p.BurstDuration,
                                p.ArrivalTime, waitingTime, turnaround, completion),
            !.serviceTime = serviceTime,
            !.gantt = Append(@, TimeSlice(p.ProcessID, start, serviceTime))]

RECURSIVE FCFSLoop(_, _, _)
FCFSLoop(st, ps, i) ==
    IF i > Len(ps) THEN st ELSE FCFSLoop(FCFSBody(st, ps, i), ps, i + 1)

\* What FCFSSchedule hands to the output helpers.
FCFSRun(ps) == FCFSLoop(FCFSStart(ps), ps, 1)

----------------------------------------------------------------------------
(* SJFSchedule *)

\* The variables of SJFSchedule before its loop; remaining is a sorted copy.
SJFStart(ps) ==
    [currentTime |-> 0, totalWait |-> 0, totalTurnaround |-> 0,
     lastCompletion |-> 0, waitingTime |-> 0,
     schedule |-> [k \in 1..Len(ps) |-> NilRow], gantt |-> <<>>,
     remaining |-> SortSlice("burst", ps),
     count |-> Len(ps), panic |-> FALSE]

SJFWaitingTime(current, currentTime) ==
    IF current.ArrivalTime > currentTime
    THEN current.ArrivalTime - currentTime
    ELSE 0

\* The range check with the bound one slot beyond the end of the table.
SJFSlotInRangeOrAtEnd(current, n) == current.ProcessID - 1 >= 0 /\ current.ProcessID - 1 <= n

\* schedule[current.ProcessID-1] is in range of make([][]string, n).
SJFSlotInRange(current, n) == current.ProcessID - 1 >= 0 /\ current.ProcessID - 1 < n

\* One iteration of the loop of SJFSchedule; the store into the schedule
\* panics when the slot is out of range, and the run ends there.
SJFBody(st) ==
    LET current == Head(st.remaining)
        waitingTime == SJFWaitingTime(current, st.currentTime)
        start == st.currentTime + waitingTime
        turnaround == current.BurstDuration + waitingTime
        completion == current.BurstDuration + start
        popped == [st EXCEPT
                      !.remaining = Tail(@),
                      !.waitingTime = waitingTime,
                      !.totalWait = @ + waitingTime,
                      !.totalTurnaround = @ + turnaround,
                      !.lastCompletion = completion]
    IN  IF ~SJFSlotInRange(current, Len(st.schedule))
        THEN [popped EXCEPT !.panic = TRUE]
        ELSE [popped EXCEPT
                 !.schedule[current.ProcessID] =
                     Row(current.ProcessID, current.Priority, current.BurstDuration,
                         current.ArrivalTime, waitingTime, turnaround, completion),
                 !.currentTime = completion,
                 !.gantt = Append(@, TimeSlice(current.ProcessID, start, completion))]

RECURSIVE SJFLoop(_)
SJFLoop(st) ==
    IF st.panic \/ Len(st.remaining) = 0 THEN st ELSE SJFLoop(SJFBody(st))

SJFRun(ps) == SJFLoop(SJFStart(ps))

----------------------------------------------------------------------------
(* SJFPrioritySchedule *)

\* The variables of SJFPrioritySchedule before its loop; the list it ranges
\* over is the caller's backing array after the in-place sort.
PriorityStart(ps) ==
    [serviceTime |-> 0, totalWait |-> 0, totalTurnaround |-> 0,
     lastCompletion |-> 0, waitingTime |-> 0,
     schedule |-> [k \in 1..Len(ps) |-> NilRow], gantt |-> <<>>,
     processes |-> SortSlice("burstPriority", ps),
     count |-> Len(ps), panic |-> FALSE]

\* One iteration of the loop of SJFPrioritySchedule on processes[i].
PriorityBody(st, i) ==
    LET p == st.processes[i]
        idle == p.ArrivalTime > st.serviceTime
        waitingTime == IF idle THEN 0 ELSE st.serviceTime - p.ArrivalTime
        start == IF idle THEN p.ArrivalTime ELSE st.serviceTime
        turnaround == p.BurstDuration + waitingTime
        completion == start + p.BurstDuration
    IN  [st EXCEPT
            !.waitingTime = waitingTime,
            !.totalWait = @ + waitingTime,
            !.totalTurnaround = @ + turnaround,
            !.lastCompletion = completion,
            !.schedule[i] = Row(p.ProcessID, p.Priority, p.BurstDuration,
                                p.ArrivalTime, waitingTime, turnaround, completion),
            !.serviceTime = start + p.BurstDuration,
            !.gantt = Append(@, TimeSlice(p.ProcessID, start, start + p.BurstDuration))]

RECURSIVE PriorityLoop(_, _)
PriorityLoop(st, i) ==
    IF i > Len(st.processes) THEN st ELSE PriorityLoop(PriorityBody(st, i), i + 1)

PriorityRun(ps) == PriorityLoop(PriorityStart(ps), 1)

----------------------------------------------------------------------------
(* RRSchedule *)

\* The variables of RRSchedule when it reaches its loop (main.go:265-279).
\* len is the length of the scheduler's own slice header: the slice shrinks
\* while the backing array, which the caller also sees, keeps its length.
RRStart(n) ==
    [len |-> n, queue |-> <<>>, currentTime |-> 0,
     totalWait |-> 0, totalTurnaround |-> 0, lastCompletion |-> 0,
     waitingTime |-> <<>>, schedule |-> <<>>, gantt |-> <<>>,
     status |-> "loop"]

\* RRSchedule before it is called.
RRNotCalled == [RRStart(0) EXCEPT !.status = "notcalled"]

\* for len(processes) > 0 || len(queue) > 0
RRLoopCondition(st) == st.len > 0 \/ Len(st.queue) > 0

\* processes = append(processes[:i], processes[i+1:]...) for the 1-based
\* position j = i + 1 of a slice of length n: the elements after j move one
\* place down in the backing array, whose last place keeps its old value.
RemoveAt(arr, j, n) ==
    [k \in 1..Len(arr) |-> IF k >= j /\ k < n THEN arr[k + 1] ELSE arr[k]]

\* processes[i+1:] is in range only when i + 1 <= len(processes).
RemoveInRange(j, n) == j <= n

\* The admission loop, for i, p := range processes: it runs over the n0
\* positions the slice had when the loop began and reads p from the backing
\* array as it is when position j is reached.  a is [arr, len, queue, panic].
RECURSIVE AdmitLoop(_, _, _, _)
AdmitLoop(a, j, n0, currentTime) ==
    IF j > n0 \/ a.panic THEN a
    ELSE LET p == a.arr[j]
         IN  IF p.ArrivalTime <= currentTime
             THEN IF RemoveInRange(j, a.len)
                  THEN AdmitLoop([arr |-> RemoveAt(a.arr, j, a.len),
                                  len |-> a.len - 1,
                                  queue |-> Append(a.queue, p),
                                  panic |-> FALSE], j + 1, n0, currentTime)
                  ELSE [a EXCEPT !.queue = Append(@, p), !.panic = TRUE]
             ELSE AdmitLoop(a, j + 1, n0, currentTime)

\* The admission pass of one iteration of the loop of RRSchedule.
Admit(st, arr) ==
    AdmitLoop([arr |-> arr, len |-> st.len, queue |-> st.queue, panic |-> FALSE],
              1, st.len, st.currentTime)

\* The idle step with the clock advanced by two units instead of one.
IdleTickByTwo(currentTime) == currentTime + 2

\* No process is ready: currentTime++ (main.go:289-292).
IdleTick(currentTime) == currentTime + 1

\* The execution time without the cut to the burst that is left.
ExecTimeAlwaysQuantum(p) == quantum

\* execTime := quantum; if BurstDuration < quantum { execTime = BurstDuration }
ExecTime(p) == IF p.BurstDuration < quantum THEN p.BurstDuration ELSE quantum

\* waitingTime[currentProcess.ProcessID] = v
MapStore(m, key, v) == [k \in DOMAIN m \cup {key} |-> IF k = key THEN v ELSE m[k]]

\* The row appended when currentProcess completes (main.go:316-324), from
\* the working copy after its burst was decremented.
RRRow(cp, execTime, wait, turnaround, currentTime) ==
    Row(cp.ProcessID, cp.Priority, cp.BurstDuration + execTime,
        cp.ArrivalTime - wait, wait, turnaround, currentTime)

\* turnaround := currentTime - currentProcess.ArrivalTime + waitingTime[id]
RRTurnaround(cp, wait, currentTime) == currentTime - cp.ArrivalTime + wait

\* The rest of an iteration once the admission pass left queue non-empty:
\* dispatch the head of the queue for one quantum or to its end.
Dispatch(st, queue) ==
    LET currentProcess == Head(queue)
        execTime == ExecTime(currentProcess)
        wait == st.currentTime - currentProcess.ArrivalTime
        currentTime == st.currentTime + execTime
        burst == currentProcess.BurstDuration - execTime
        cp == [currentProcess EXCEPT !.BurstDuration = burst]
        slice == TimeSlice(cp.ProcessID, currentTime - execTime, currentTime)
        common == [st EXCEPT
                      !.waitingTime = MapStore(@, cp.ProcessID, wait),
                      !.totalWait = @ + wait,
                      !.currentTime = currentTime,
                      !.gantt = Append(@, slice)]
    IN  IF burst > 0
        THEN [common EXCEPT
                 !.queue = Append(Tail(queue), [cp EXCEPT !.ArrivalTime = currentTime])]
        ELSE LET turnaround == RRTurnaround(cp, wait, currentTime)
             IN  [common EXCEPT
                     !.queue = Tail(queue),
                     !.totalTurnaround = @ + turnaround,
                     !.lastCompletion = currentTime,
                     !.schedule = Append(@, RRRow(cp, execTime, wait, turnaround,
                                                  currentTime))]

\* What an iteration of the loop does after its admission pass a.
IterationKind(a) ==
    IF a.panic THEN "panic"
    ELSE IF Len(a.queue) = 0 THEN "idle"
    ELSE IF Head(a.queue).BurstDuration - ExecTime(Head(a.queue)) > 0 THEN "preempt"
    ELSE "complete"

\* One iteration of the loop of RRSchedule, or the exit from it: the new
\* scheduler variables and the new backing array.
RRIteration(st, arr) ==
    IF ~RRLoopCondition(st)
    THEN [st |-> [st EXCEPT !.status = "returned"], arr |-> arr]
    ELSE LET a == Admit(st, arr)
             admitted == [st EXCEPT !.len = a.len, !.queue = a.queue]
         IN  CASE IterationKind(a) = "panic" ->
                      [st |-> [admitted EXCEPT !.status = "panic"], arr |-> a.arr]
               [] IterationKind(a) = "idle" ->
                      [st |-> [admitted EXCEPT !.currentTime = IdleTick(@)], arr |-> a.arr]
               [] OTHER ->
                      [st |-> Dispatch(admitted, a.queue), arr |-> a.arr]

RECURSIVE RRLoop(_)
RRLoop(m) ==
    IF m.st.status # "loop" THEN m ELSE RRLoop(RRIteration(m.st, m.arr))

\* RRSchedule as a whole on the list ps: the variables it ends with and the
\* backing array it leaves to its caller.
RRRun(ps) == RRLoop([st |-> RRStart(Len(ps)), arr |-> SortSlice("arrival", ps)])

----------------------------------------------------------------------------
(* main and the state of a run *)

vars == <<release, loaded, entry, processes, pc, fcfs, sjf, prio, rr>>

\* The ids of a list of n processes: 1..n in order, 1..n reversed, and
\* 2..n+1, which is not a permutation of 1..n.
IdLists(n) ==
    { [k \in 1..n |-> k], [k \in 1..n |-> n + 1 - k], [k \in 1..n |-> k + 1] }

\* A loaded record: id, burst, arrival and priority, in the order of the
\* fields of an input line (main.go:398-403).
P(id, burst, arrival, priority) ==
    [ProcessID |-> id, ArrivalTime |-> arrival, BurstDuration |-> burst,
     Priority |-> priority]

\* The priorities of a list of n processes: all equal, and alternating
\* between 0 and 1 from either start.
PriorityLists(n) ==
    { [k \in 1..n |-> 0], [k \in 1..n |-> k % 2], [k \in 1..n |-> (k + 1) % 2] }

\* The lists within the bounds: unique ids, arrival >= 0, burst > 0.
BoundedLists ==
    UNION { { [k \in 1..n |-> P(ids[k], f[k][2], f[k][1], prs[k])] :
                ids \in IdLists(n),
                prs \in PriorityLists(n),
                f \in [1..n -> Arrivals \X Bursts] } :
            n \in 0..MaxLen }

\* The worked examples of the specification, for FCFS, SJF and Round-Robin.
FCFSExample == <<P(1, 5, 0, 0), P(2, 3, 1, 0)>>

SJFExample == <<P(1, 8, 0, 0), P(2, 4, 1, 0)>>

RRExample == <<P(1, 5, 0, 0), P(2, 3, 0, 0)>>

\* Lists with a process that is preempted twice.
TwicePreempted == { <<P(1, 9, 0, 0)>>, <<P(1, 9, 0, 0), P(2, 5, 1, 0)>> }

\* A list of seven processes, two of them with the longest burst.
SevenProcesses ==
    <<P(1, 5, 0, 0), P(2, 5, 0, 0), P(3, 1, 0, 0), P(4, 1, 0, 0), P(5, 1, 0, 0),
      P(6, 1, 0, 0), P(7, 1, 0, 0)>>

\* The lists loadProcesses returns in the runs of the model.
LoadedLists ==
    BoundedLists \cup {FCFSExample, SJFExample, RRExample, SevenProcesses}
                 \cup TwicePreempted

\* main calls the four schedulers in this order (main.go:31-41).
MainOrder == <<"FCFS", "SJF", "Priority", "RR">>

Entries == {"main", "FCFS", "SJF", "Priority", "RR"}

\* Where the run goes when the scheduler called returns.
After(call) ==
    IF entry = "main" /\ \E k \in 1..(Len(MainOrder) - 1) : MainOrder[k] = call
    THEN MainOrder[(CHOOSE k \in 1..(Len(MainOrder) - 1) : MainOrder[k] = call) + 1]
    ELSE "exit"

NotRun == [ran |-> FALSE]

Ran(out) == [ran |-> TRUE, out |-> out]

\* The releases of the sort package: pdqsort_func since Go 1.19,
\* quickSort_func before.
Releases == {"pdqsort", "quicksort"}

Init ==
    /\ release \in Releases
    /\ loaded \in LoadedLists
    /\ entry \in Entries
    /\ processes = loaded
    /\ pc = (IF entry = "main" THEN MainOrder[1] ELSE entry)
    /\ fcfs = NotRun
    /\ sjf = NotRun
    /\ prio = NotRun
    /\ rr = RRNotCalled

\* FCFSSchedule(os.Stdout, "First-come, first-serve", processes)
CallFCFS ==
    /\ pc = "FCFS"
    /\ fcfs' = Ran(FCFSRun(processes))
    /\ pc' = After("FCFS")
    /\ UNCHANGED <<release, loaded, entry, processes, sjf, prio, rr>>

\* SJFSchedule(os.Stdout, "Shortest-job-first", processes)
CallSJF ==
    /\ pc = "SJF"
    /\ ~SJFRun(processes).panic
    /\ sjf' = Ran(SJFRun(processes))
    /\ pc' = After("SJF")
    /\ UNCHANGED <<release, loaded, entry, processes, fcfs, prio, rr>>

\* The same call when a store into the schedule is out of range: the
\* program ends with a runtime panic and prints nothing for this scheduler.
CallSJFPanic ==
    /\ pc = "SJF"
    /\ SJFRun(processes).panic
    /\ sjf' = Ran(SJFRun(processes))
    /\ pc' = "panic"
    /\ UNCHANGED <<release, loaded, entry, processes, fcfs, prio, rr>>

\* SJFPrioritySchedule(os.Stdout, "Priority", processes)
CallPriority ==
    /\ pc = "Priority"
    /\ prio' = Ran(PriorityRun(processes))
    /\ processes' = PriorityRun(processes).processes
    /\ pc' = After("Priority")
    /\ UNCHANGED <<release, loaded, entry, fcfs, sjf, rr>>

\* RRSchedule(os.Stdout, "Round-robin", processes) up to its loop: the
\* in-place sort by arrival time.
CallRR ==
    /\ pc = "RR"
    /\ processes' = SortSlice("arrival", processes)
    /\ rr' = RRStart(Len(processes))
    /\ pc' = "RRLoop"
    /\ UNCHANGED <<release, loaded, entry, fcfs, sjf, prio>>

\* An iteration of the loop of RRSchedule of the given kind.
RRStep(kind) ==
    /\ pc = "RRLoop"
    /\ RRLoopCondition(rr)
    /\ IterationKind(Admit(rr, processes)) = kind
    /\ rr' = RRIteration(rr, processes).st
    /\ processes' = RRIteration(rr, processes).arr
    /\ UNCHANGED <<release, loaded, entry, fcfs, sjf, prio>>

\* No process is ready: currentTime++ and continue.
RRIdle == RRStep("idle") /\ pc' = pc

\* The dispatched process has burst left and goes to the back of the queue.
RRPreempt == RRStep("preempt") /\ pc' = pc

\* The dispatched process completes and gets its row.
RRComplete == RRStep("complete") /\ pc' = pc

\* The admission loop slices past the end of the list: runtime panic.
RRPanic == RRStep("panic") /\ pc' = "panic"

\* The loop condition is false: RRSchedule computes the averages, prints
\* and returns.
RRReturn ==
    /\ pc = "RRLoop"
    /\ ~RRLoopCondition(rr)
    /\ rr' = RRIteration(rr, processes).st
    /\ pc' = "exit"
    /\ UNCHANGED <<release, loaded, entry, processes, fcfs, sjf, prio>>

Next ==
    \/ CallFCFS
    \/ CallSJF
    \/ CallSJFPanic
    \/ CallPriority
    \/ CallRR
    \/ RRIdle
    \/ RRPreempt
    \/ RRComplete
    \/ RRPanic
    \/ RRReturn

Spec == Init /\ [][Next]_vars

TypeOK ==
    /\ pc \in {"FCFS", "SJF", "Priority", "RR", "RRLoop", "exit", "panic"}
    /\ entry \in Entries
    /\ release \in Releases
    /\ Len(processes) = Len(loaded)
    /\ \A k \in 1..Len(processes) : processes[k] \in Process
    /\ rr.status \in {"notcalled", "loop", "returned", "panic"}

----------------------------------------------------------------------------
(* Vocabulary of the properties *)

Range(s) == { s[k] : k \in 1..Len(s) }

Duration(slice) == slice.Stop - slice.Start

\* The CPU time the first k intervals of a timeline give to process pid.
RECURSIVE Executed(_, _, _)
Executed(gantt, pid, k) ==
    IF k = 0 THEN 0
    ELSE Executed(gantt, pid, k - 1)
         + (IF gantt[k].PID = pid THEN Duration(gantt[k]) ELSE 0)

\* The loaded processes that the first k intervals of a timeline leave
\* unfinished.
Unfinished(gantt, k) ==
    { p \in Range(loaded) : Executed(gantt, p.ProcessID, k) < p.BurstDuration }

Min(S) == CHOOSE x \in S : \A y \in S : x <= y

\* RRSchedule has left its loop by the loop condition.
RRReturned == rr.status = "returned"

----------------------------------------------------------------------------
(* C1 *)

\* C1: every interval RRSchedule emits is at most one quantum long, and
\* when RRSchedule returns the intervals of each process add up to the
\* burst that process was loaded with.
C1_RRQuantumAndBurstSum ==
    /\ \A k \in 1..Len(rr.gantt) : Duration(rr.gantt[k]) <= quantum
    /\ RRReturned =>
           /\ \A p \in Range(loaded) :
                  Executed(rr.gantt, p.ProcessID, Len(rr.gantt)) = p.BurstDuration
           /\ \A k \in 1..Len(rr.gantt) :
                  \E p \in Range(loaded) : p.ProcessID = rr.gantt[k].PID

\* RRSchedule returned after it preempted a process of a list of several.
C1_Witness ==
    /\ RRReturned
    /\ Len(loaded) >= 2
    /\ \E p \in Range(loaded) :
           /\ p.BurstDuration > quantum
           /\ Cardinality({ k \in 1..Len(rr.gantt) : rr.gantt[k].PID = p.ProcessID }) >= 2

----------------------------------------------------------------------------
(* C2 *)

\* C2 as stated: in the timeline of RRSchedule every interval starts
\* exactly where the one before it stopped.
C2_RRNoGaps ==
    \A k \in 1..(Len(rr.gantt) - 1) : rr.gantt[k + 1].Start = rr.gantt[k].Stop

\* C2, amended: the intervals of RRSchedule never overlap and their starts
\* never decrease; an interval starts exactly where the one before it
\* stopped when some unfinished process had arrived by then, and otherwise
\* at the earliest arrival time of the unfinished processes.
C2_RRContiguousWhenReady ==
    \A k \in 1..(Len(rr.gantt) - 1) :
        LET prev == rr.gantt[k]
            next == rr.gantt[k + 1]
            waiting == { p.ArrivalTime : p \in Unfinished(rr.gantt, k) }
        IN  /\ next.Start >= prev.Stop
            /\ next.Start >= prev.Start
            /\ waiting # {}
            /\ next.Start = (IF Min(waiting) <= prev.Stop THEN prev.Stop ELSE Min(waiting))

\* RRSchedule returned a timeline that has both an interval that follows
\* its predecessor at once and one that follows an idle CPU.
C2_Witness ==
    /\ RRReturned
    /\ \E k \in 1..(Len(rr.gantt) - 1) : rr.gantt[k + 1].Start = rr.gantt[k].Stop
    /\ \E k \in 1..(Len(rr.gantt) - 1) : rr.gantt[k + 1].Start > rr.gantt[k].Stop

----------------------------------------------------------------------------
(* Vocabulary of the properties of the reported rows *)

\* A scheduler that ran to its end and handed its output to the helpers.
Finished(o) == o.ran /\ ~o.out.panic

\* The loaded process with the given id.
LoadedById(id) == CHOOSE p \in Range(loaded) : p.ProcessID = id

\* The row a schedule table holds for the given id.
RowOf(schedule, id) == CHOOSE r \in Range(schedule) : r.ID = id

\* The positions of the intervals of process pid in a timeline.
SlicesOf(gantt, pid) == { k \in 1..Len(gantt) : gantt[k].PID = pid }

----------------------------------------------------------------------------
(* C3 *)

RowIdentities(r) ==
    /\ r.Turnaround = r.Burst + r.Wait
    /\ r.Exit = r.Arrival + r.Wait + r.Burst
    /\ r.Turnaround = r.Exit - r.Arrival

AllRowIdentities(o) ==
    Finished(o) => \A k \in 1..Len(o.out.schedule) : RowIdentities(o.out.schedule[k])

\* C3: every row FCFSSchedule, SJFSchedule and SJFPrioritySchedule report
\* has turnaround = burst + waiting, completion = arrival + waiting + burst
\* and so turnaround = completion - arrival.
C3_NonPreemptiveRowIdentities ==
    /\ AllRowIdentities(fcfs)
    /\ AllRowIdentities(sjf)
    /\ AllRowIdentities(prio)

----------------------------------------------------------------------------
(* C4 *)

RowNotEarly(r) ==
    /\ r.Exit >= LoadedById(r.ID).ArrivalTime + LoadedById(r.ID).BurstDuration
    /\ r.Wait >= 0

NoRowEarly(o) ==
    Finished(o) => \A k \in 1..Len(o.out.schedule) : RowNotEarly(o.out.schedule[k])

\* C4: in all four schedulers the reported completion time of a process is
\* at least its arrival time plus its burst, and the reported waiting time
\* is never negative.
C4_CompletionNotBeforeArrivalPlusBurst ==
    /\ NoRowEarly(fcfs)
    /\ NoRowEarly(sjf)
    /\ NoRowEarly(prio)
    /\ RRReturned => \A k \in 1..Len(rr.schedule) : RowNotEarly(rr.schedule[k])

----------------------------------------------------------------------------
(* C5 *)

OneIntervalPerProcess(o) ==
    Finished(o) =>
        /\ Len(o.out.gantt) = Len(loaded)
        /\ \A p \in Range(loaded) :
               /\ Cardinality(SlicesOf(o.out.gantt, p.ProcessID)) = 1
               /\ \A k \in SlicesOf(o.out.gantt, p.ProcessID) :
                      /\ Duration(o.out.gantt[k]) = p.BurstDuration
                      /\ o.out.gantt[k].Stop = RowOf(o.out.schedule, p.ProcessID).Exit

\* C5: FCFSSchedule, SJFSchedule and SJFPrioritySchedule emit exactly one
\* interval per process, as long as the burst of the process and stopping
\* at the completion time reported for it.
C5_OneIntervalPerProcess ==
    /\ OneIntervalPerProcess(fcfs)
    /\ OneIntervalPerProcess(sjf)
    /\ OneIntervalPerProcess(prio)

----------------------------------------------------------------------------
(* C6 *)

\* C6: on the example list RRSchedule runs to its end with the timeline
\* P1 [0,4), P2 [4,7), P1 [7,8) and reports turnaround 7 for P2 and 8 for P1.
C6_RRExample ==
    (entry = "RR" /\ loaded = RRExample /\ pc \in {"exit", "panic"}) =>
        /\ pc = "exit"
        /\ rr.gantt = <<TimeSlice(1, 0, 4), TimeSlice(2, 4, 7), TimeSlice(1, 7, 8)>>
        /\ RowOf(rr.schedule, 2).Turnaround = 7
        /\ RowOf(rr.schedule, 1).Turnaround = 8

----------------------------------------------------------------------------
(* C7 *)

SingleRowAsExpected(schedule, lastCompletion) ==
    /\ Len(schedule) = 1
    /\ schedule[1].Wait = 0
    /\ schedule[1].Turnaround = loaded[1].BurstDuration
    /\ lastCompletion = loaded[1].BurstDuration

SingleAsExpected(o) ==
    Finished(o) => SingleRowAsExpected(o.out.schedule, o.out.lastCompletion)

\* C7: on a list of one process each of the four schedulers reports waiting
\* time 0, a turnaround equal to the burst and a last completion time (the
\* denominator of the throughput) equal to the burst.
C7_SingleProcess ==
    Len(loaded) = 1 =>
        /\ SingleAsExpected(fcfs)
        /\ SingleAsExpected(sjf)
        /\ SingleAsExpected(prio)
        /\ RRReturned => SingleRowAsExpected(rr.schedule, rr.lastCompletion)

----------------------------------------------------------------------------
(* C8 *)

\* The loop of RRSchedule was left by its loop condition, with nothing
\* remaining and a row for every loaded process.
RRExitedNormally ==
    /\ RRReturned
    /\ rr.len = 0
    /\ Len(rr.queue) = 0
    /\ Len(rr.schedule) = Len(loaded)

\* C8: RRSchedule terminates by leaving its loop normally: a run of it
\* that iterates no more has returned, with the remaining list and the queue
\* empty and one row for every loaded process.
C8_RRTerminatesNormally ==
    rr.status \notin {"notcalled", "loop"} => RRExitedNormally

----------------------------------------------------------------------------
(* C9 *)

\* C9: in the sequence main runs, every scheduler ends as it ends when it
\* alone is run on the loaded list, and hands over the same timeline and
\* the same rows.
C9_SequenceIndependent ==
    entry = "main" =>
        /\ fcfs.ran => fcfs.out = FCFSRun(loaded)
        /\ sjf.ran => sjf.out = SJFRun(loaded)
        /\ prio.ran =>
               /\ prio.out.gantt = PriorityRun(loaded).gantt
               /\ prio.out.schedule = PriorityRun(loaded).schedule
        /\ rr.status \in {"returned", "panic"} =>
               /\ rr.status = RRRun(loaded).st.status
               /\ RRReturned =>
                      /\ rr.gantt = RRRun(loaded).st.gantt
                      /\ rr.schedule = RRRun(loaded).st.schedule

----------------------------------------------------------------------------
(* C10 *)

Count(s, x) == Cardinality({ k \in 1..Len(s) : s[k] = x })

SameMultiset(s, t) ==
    /\ Len(s) = Len(t)
    /\ \A x \in Range(s) \cup Range(t) : Count(s, x) = Count(t, x)

\* No scheduler call is under way: the caller holds its list.
AtCaller == pc \in {"FCFS", "SJF", "Priority", "RR", "exit"}

\* C10: whenever a scheduler call has returned, the caller's list holds the
\* records that were loaded, each as often as it was loaded; FCFSSchedule and
\* SJFSchedule leave the list as it was.
C10_CallerListPreserved ==
    AtCaller =>
        /\ SameMultiset(processes, loaded)
        /\ (entry \in {"FCFS", "SJF"} \/ (entry = "main" /\ pc \in {"FCFS", "SJF", "Priority"}))
               => processes = loaded

----------------------------------------------------------------------------
(* C11 *)

Max(S) == CHOOSE x \in S : \A y \in S : x >= y

\* The completion times a schedule table shows.
Exits(schedule) == { schedule[k].Exit : k \in 1..Len(schedule) }

\* The operands of the throughput a scheduler hands to outputSchedule:
\* the number of rows of the table and the largest completion time in it.
ThroughputOperands(count, lastCompletion, schedule) ==
    /\ count = Len(schedule)
    /\ schedule # <<>> => lastCompletion = Max(Exits(schedule))

ThroughputOf(o) ==
    Finished(o) => ThroughputOperands(o.out.count, o.out.lastCompletion, o.out.schedule)

\* C11: the throughput every scheduler reports divides the number of rows
\* of its table by the largest completion time shown in the table; for
\* RRSchedule the number of rows is len(schedule).
C11_ThroughputOverLastCompletion ==
    /\ ThroughputOf(fcfs)
    /\ ThroughputOf(sjf)
    /\ ThroughputOf(prio)
    /\ RRReturned => ThroughputOperands(Len(rr.schedule), rr.lastCompletion, rr.schedule)

\* The same without FCFSSchedule.
C11_ExceptFCFS ==
    /\ ThroughputOf(sjf)
    /\ ThroughputOf(prio)
    /\ RRReturned => ThroughputOperands(Len(rr.schedule), rr.lastCompletion, rr.schedule)

----------------------------------------------------------------------------
(* C12 *)

\* RRSchedule is at the head of an iteration of its loop.
AtAdmission == pc = "RRLoop" /\ rr.status = "loop" /\ RRLoopCondition(rr)

\* The processes RRSchedule has not admitted yet, in the order of its slice.
Remaining == SubSeq(processes, 1, rr.len)

Eligible(p) == p.ArrivalTime <= rr.currentTime

NotEligible(p) == ~Eligible(p)

\* What the admission pass of the iteration at hand does.
AdmissionPass == Admit(rr, processes)

\* C12: an admission pass of RRSchedule that runs to its end moves every
\* remaining process with arrivalTime <= currentTime to the back of the
\* ready queue, each once and in the order of the slice (ascending
\* arrival), and leaves the others in the slice.
C12_AdmitsEveryEligible ==
    (AtAdmission /\ ~AdmissionPass.panic) =>
        /\ AdmissionPass.queue = rr.queue \o SelectSeq(Remaining, Eligible)
        /\ SubSeq(AdmissionPass.arr, 1, AdmissionPass.len)
               = SelectSeq(Remaining, NotEligible)

\* The part of it the code keeps: a pass that runs to its end admits no
\* process twice and no process that has not arrived, and what it leaves
\* in the slice is what it did not admit.
C12_AdmitsOnlyEligibleOnce ==
    (AtAdmission /\ ~AdmissionPass.panic) =>
        LET new == SubSeq(AdmissionPass.queue, Len(rr.queue) + 1, Len(AdmissionPass.queue))
            left == SubSeq(AdmissionPass.arr, 1, AdmissionPass.len)
        IN  /\ \A k \in 1..Len(new) : Eligible(new[k])
            /\ \A p \in Range(Remaining) : Count(new, p) + Count(left, p) = Count(Remaining, p)

----------------------------------------------------------------------------
(* C13 *)

\* A row of RRSchedule shows the arrival time and the burst the process was
\* loaded with, and its turnaround is its completion less that arrival.
RROriginalRow(r) ==
    /\ r.Arrival = LoadedById(r.ID).ArrivalTime
    /\ r.Burst = LoadedById(r.ID).BurstDuration
    /\ r.Turnaround = r.Exit - LoadedById(r.ID).ArrivalTime

\* C13: every row RRSchedule reports, also of a process that was preempted,
\* shows the original arrival time and burst duration of its process and
\* turnaround = completion - original arrival.
C13_RRRowsShowOriginalValues ==
    RRReturned => \A k \in 1..Len(rr.schedule) : RROriginalRow(rr.schedule[k])

\* What the code keeps: the rows of the processes that were dispatched
\* once and at their arrival time.
C13_DispatchedOnceOnArrival ==
    RRReturned =>
        \A k \in 1..Len(rr.schedule) :
            LET r == rr.schedule[k]
            IN  (Cardinality(SlicesOf(rr.gantt, r.ID)) = 1 /\ r.Wait = 0)
                    => RROriginalRow(r)

----------------------------------------------------------------------------
(* C14 *)

\* The sum of the burst durations of the first k processes of a list.
RECURSIVE BurstsBefore(_, _)
BurstsBefore(ps, k) ==
    IF k = 0 THEN 0 ELSE BurstsBefore(ps, k - 1) + ps[k].BurstDuration

NonNegative(x) == IF x > 0 THEN x ELSE 0

\* C14: the waiting time FCFSSchedule reports for a process is
\* max(0, serviceTime - arrivalTime), where serviceTime is the sum of the
\* bursts of the processes before it in the list.
C14_FCFSWaitingTime ==
    Finished(fcfs) =>
        \A k \in 1..Len(fcfs.out.schedule) :
            fcfs.out.schedule[k].Wait
                = NonNegative(BurstsBefore(loaded, k - 1) - loaded[k].ArrivalTime)

\* What the code keeps: serviceTime - arrivalTime, not cut at 0, for the
\* processes whose arrival time is positive.
C14_LateArrivals ==
    Finished(fcfs) =>
        \A k \in 1..Len(fcfs.out.schedule) :
            loaded[k].ArrivalTime > 0 =>
                fcfs.out.schedule[k].Wait
                    = BurstsBefore(loaded, k - 1) - loaded[k].ArrivalTime

----------------------------------------------------------------------------
(* C15 *)

\* The ids of the loaded processes.
LoadedIds == { loaded[k].ProcessID : k \in 1..Len(loaded) }

\* The ids of the loaded list are 1..N in some order.
IdsArePermutation == LoadedIds = 1..Len(loaded)

\* The row of the process with the given id, as SJFSchedule reports it.
IsRowOf(r, id) ==
    /\ r.ID = id
    /\ r.Burst = LoadedById(id).BurstDuration
    /\ r.Arrival = LoadedById(id).ArrivalTime

\* C15: SJFSchedule stores the row of a process at slot processId - 1 of a
\* table of N slots: when the ids are 1..N in some order, every slot holds
\* the row of the process with that id; when they are not, the run ends
\* with an index out of range and nothing is handed to the output helpers.
C15_SJFRowsBySlot ==
    sjf.ran =>
        IF IdsArePermutation
        THEN /\ ~sjf.out.panic
             /\ Len(sjf.out.schedule) = Len(loaded)
             /\ \A id \in 1..Len(loaded) : IsRowOf(sjf.out.schedule[id], id)
        ELSE /\ sjf.out.panic
             /\ pc = "panic"

\* SJFSchedule has filled a table of three slots from a list that holds
\* the ids in descending order and that it executed in another order.
C15_Witness ==
    /\ sjf.ran
    /\ ~sjf.out.panic
    /\ Len(loaded) = 3
    /\ \A k \in 1..3 : loaded[k].ProcessID = 4 - k
    /\ sjf.out.gantt[1].PID = 2
    /\ \A id \in 1..3 : sjf.out.schedule[id].ID = id

----------------------------------------------------------------------------
(* C16 *)

\* (burst, priority) of row r is not after that of row q in the
\* lexicographic order.
BurstPriorityOrdered(r, q) ==
    \/ r.Burst < q.Burst
    \/ r.Burst = q.Burst /\ r.Priority <= q.Priority

\* C16: SJFPrioritySchedule executes the loaded processes in ascending
\* order of burst duration and, among equal bursts, of priority value: its
\* rows and its intervals come in that order, one per loaded process,
\* whatever the arrival times and the order of the input.
C16_PriorityOrder ==
    Finished(prio) =>
        LET schedule == prio.out.schedule
            gantt == prio.out.gantt
        IN  /\ Len(schedule) = Len(loaded)
            /\ Len(gantt) = Len(loaded)
            /\ \A p \in Range(loaded) : \E k \in 1..Len(schedule) : IsRowOf(schedule[k], p.ProcessID)
            /\ \A k \in 1..Len(schedule) : gantt[k].PID = schedule[k].ID
            /\ \A k \in 1..(Len(schedule) - 1) :
                   /\ BurstPriorityOrdered(schedule[k], schedule[k + 1])
                   /\ gantt[k].Start <= gantt[k + 1].Start

\* SJFPrioritySchedule has run on three processes of which the last two
\* have the same burst and come with the larger priority value first, and
\* the first has a longer burst and the earliest arrival: it executed them
\* in the reverse of the input order.
C16_Witness ==
    /\ Finished(prio)
    /\ Len(loaded) = 3
    /\ loaded[1].BurstDuration > loaded[2].BurstDuration
    /\ loaded[2].BurstDuration = loaded[3].BurstDuration
    /\ loaded[2].Priority > loaded[3].Priority
    /\ loaded[1].ArrivalTime < loaded[2].ArrivalTime
    /\ loaded[2].ArrivalTime < loaded[3].ArrivalTime
    /\ \A k \in 1..3 : prio.out.gantt[k].PID = loaded[4 - k].ProcessID

----------------------------------------------------------------------------
(* C17 *)

\* The position of the process with the given id in the loaded list.
PositionOf(id) == CHOOSE k \in 1..Len(loaded) : loaded[k].ProcessID = id

\* Process a is executed before process b by a stable shortest-burst order.
StableBurstOrdered(a, b) ==
    \/ LoadedById(a).BurstDuration < LoadedById(b).BurstDuration
    \/ /\ LoadedById(a).BurstDuration = LoadedById(b).BurstDuration
       /\ PositionOf(a) < PositionOf(b)

\* The intervals of SJFSchedule come in a stable shortest-burst order.
SJFStableOrder ==
    \A k \in 1..(Len(sjf.out.gantt) - 1) :
        StableBurstOrdered(sjf.out.gantt[k].PID, sjf.out.gantt[k + 1].PID)

\* C17: SJFSchedule executes the processes in non-decreasing order of burst
\* duration, whatever their arrival times, and processes with equal bursts
\* in the order of the input list.
C17_SJFStableBurstOrder == Finished(sjf) => SJFStableOrder

\* What the code keeps in every release of the sort package: the bursts
\* never decrease, and ties keep the input order in a list of at most six
\* processes.
C17_BurstOrder ==
    Finished(sjf) =>
        /\ \A k \in 1..(Len(sjf.out.gantt) - 1) :
               LoadedById(sjf.out.gantt[k].PID).BurstDuration
                   <= LoadedById(sjf.out.gantt[k + 1].PID).BurstDuration
        /\ (Len(loaded) <= 6 \/ release = "pdqsort") => SJFStableOrder

----------------------------------------------------------------------------
(* C18 *)

\* C18: no step of RRSchedule slices or indexes out of range: the slice
\* expression of an admission pass is in range whenever it is evaluated,
\* and the head of the queue is read only when the queue is non-empty.
C18_RRInRange ==
    AtAdmission =>
        /\ ~AdmissionPass.panic
        /\ IterationKind(AdmissionPass) \in {"preempt", "complete"}
               => Len(AdmissionPass.queue) > 0

\* The part of it the code keeps: the head of the queue is read only when
\* the queue is non-empty.
C18_HeadOfNonEmptyQueue ==
    (AtAdmission /\ IterationKind(AdmissionPass) \in {"preempt", "complete"})
        => Len(AdmissionPass.queue) > 0

----------------------------------------------------------------------------
(* C19 *)

\* No interval of a timeline starts before the interval emitted before it
\* has stopped.
NoOverlap(gantt) ==
    \A k \in 1..(Len(gantt) - 1) : gantt[k + 1].Start >= gantt[k].Stop

\* C19: the intervals FCFSSchedule, SJFSchedule and SJFPrioritySchedule
\* emit never overlap: each starts at or after the stop of the one before.
C19_NoOverlap ==
    /\ Finished(fcfs) => NoOverlap(fcfs.out.gantt)
    /\ Finished(sjf) => NoOverlap(sjf.out.gantt)
    /\ Finished(prio) => NoOverlap(prio.out.gantt)

\* The same without FCFSSchedule.
C19_ExceptFCFS ==
    /\ Finished(sjf) => NoOverlap(sjf.out.gantt)
    /\ Finished(prio) => NoOverlap(prio.out.gantt)

----------------------------------------------------------------------------
(* C20 *)

\* The sum of the waiting times the first k rows of a table show.
RECURSIVE WaitShown(_, _)
WaitShown(schedule, k) ==
    IF k = 0 THEN 0 ELSE WaitShown(schedule, k - 1) + schedule[k].Wait

\* The average wait a scheduler reports is the mean of the waiting times
\* its rows show: totalWait is their sum and the divisor their number.
MeanOfRows(totalWait, count, schedule) ==
    /\ totalWait = WaitShown(schedule, Len(schedule))
    /\ count = Len(schedule)

MeanOfRowsOf(o) ==
    Finished(o) => MeanOfRows(o.out.totalWait, o.out.count, o.out.schedule)

\* C20: in every discipline the total that the average wait is computed
\* from is the sum of the waiting times shown in the rows, and the divisor
\* is the number of rows; in RRSchedule also when processes are preempted
\* and dispatched several times.
C20_AverageWaitOfRows ==
    /\ MeanOfRowsOf(fcfs)
    /\ MeanOfRowsOf(sjf)
    /\ MeanOfRowsOf(prio)
    /\ RRReturned => MeanOfRows(rr.totalWait, Len(rr.schedule), rr.schedule)

\* The same without RRSchedule.
C20_NonPreemptive ==
    /\ MeanOfRowsOf(fcfs)
    /\ MeanOfRowsOf(sjf)
    /\ MeanOfRowsOf(prio)

====
